---- MODULE Spec2Model ----
(***************************************************************************)
(* Model of suseejs/duplicates (src/opt/index.ts): the name generator      *)
(* (uniqueName / dupName), the module-key resolver (normalizePathKey,      *)
(* getModuleKeyFromSpecifier), the five bundle handlers (collector,        *)
(* updater, callExpression, exportExpression, importExpression) and the    *)
(* two entry points duplicateHandlers.renamed and .notRenamed.             *)
(*                                                                         *)
(* A module's content is held as the syntax tree that ts.createSourceFile  *)
(* builds from it; printing and re-parsing between two handlers is done by *)
(* the external packages typescript and @suseejs/transformer and is taken  *)
(* to give back the tree that was printed.                                 *)
(***************************************************************************)
EXTENDS Integers, Sequences, FiniteSets, TLC

VARIABLES
    storedPrefix,   \* uniqueName(): Map key -> prefix of the instance under test
    gens,           \* uniqueName(): key -> names array of the generator setPrefix returned
    genRet,         \* uniqueName(): the last call on the instance and its outcome
    keyIn,          \* key resolver: the (directory, importer, extension) under test
    keyOut,         \* key resolver: the keys computed for keyIn
    names,          \* dupName: the names array of the module-level generator
    op,             \* which entry point is running: "idle", "renamed", "notRenamed", "exited"
    input,          \* the batch the caller passed to the running entry point
    deps,           \* renamed/notRenamed: the local deps
    stage,          \* index of the handler being mapped over deps
    todo,           \* indices of the modules the current handler has not processed yet
    work,           \* results of the current handler (deps.map builds a new array)
    namesMap,       \* DuplicatesNameMap: name -> the {file} objects added for it
    callNameMap,    \* NamesSets: entries {base, file, newName}
    importNameMap,  \* NamesSets
    exportNameMap,  \* NamesSets, file is a module key
    reported,       \* notRenamed: names warned about as declared in multiple files
    runs,           \* number of renamed calls made in this process
    done            \* per module, the handlers that have returned for it in this call

genVars == <<storedPrefix, gens, genRet>>
keyVars == <<keyIn, keyOut>>
pipeVars == <<names, op, input, deps, stage, todo, work, namesMap, callNameMap,
              importNameMap, exportNameMap, reported, runs, done>>
vars == <<storedPrefix, gens, genRet, keyIn, keyOut, names, op, input, deps,
          stage, todo, work, namesMap, callNameMap, importNameMap, exportNameMap,
          reported, runs, done>>

(***************************************************************************)
(* Generic helpers                                                         *)
(***************************************************************************)
Last(s) == s[Len(s)]
Front(s) == SubSeq(s, 1, Len(s) - 1)

RECURSIVE Flatten(_)
Flatten(ss) == IF ss = <<>> THEN <<>> ELSE Head(ss) \o Flatten(Tail(ss))

\* Array.prototype.find: the first element satisfying the test, or NoEntry
NoEntry == [base |-> "", file |-> [abs |-> FALSE, segs |-> <<>>], newName |-> ""]
Find(map, base, file) ==
    LET hits == {i \in 1..Len(map) : map[i].base = base /\ map[i].file = file}
    IN  IF hits = {} THEN NoEntry
        ELSE map[CHOOSE i \in hits : \A j \in hits : i <= j]

(***************************************************************************)
(* uniqueName (src/opt/index.ts 56-93)                                     *)
(***************************************************************************)
\* getName: `${_fix}${input}_${length + 1}`, "$nyein" when the prefix is falsy
getName(fix, inp, nms) ==
    (IF fix # "" THEN fix ELSE "$nyein") \o inp \o "_" \o ToString(Len(nms) + 1)

\* const dupName = uniqueName().setPrefix({ key: "DuplicatesNames", value: "d_" })
DupPrefix == "d_"
dupName(inp, nms) == getName(DupPrefix, inp, nms)

(***************************************************************************)
(* node:path on POSIX. A path is [abs, segs]; a segment is the sequence of *)
(* its dot-separated parts, so "index.ts" is <<"index", "ts">>; the        *)
(* segments "." and ".." are <<".">> and <<"..">>.                         *)
(***************************************************************************)
Dot == <<".">>
DotDot == <<"..">>
P(abs, segs) == [abs |-> abs, segs |-> segs]

RECURSIVE NormSegs(_, _, _)
\* path.normalize over the segments: drop ".", resolve ".." against acc
NormSegs(abs, acc, rest) ==
    IF rest = <<>> THEN acc
    ELSE LET s == Head(rest) IN
         IF s = Dot THEN NormSegs(abs, acc, Tail(rest))
         ELSE IF s = DotDot THEN
              IF acc # <<>> /\ Last(acc) # DotDot THEN NormSegs(abs, Front(acc), Tail(rest))
              ELSE IF abs THEN NormSegs(abs, acc, Tail(rest))
              ELSE NormSegs(abs, Append(acc, s), Tail(rest))
         ELSE NormSegs(abs, Append(acc, s), Tail(rest))

pathNormalize(p) ==
    LET n == NormSegs(p.abs, <<>>, p.segs)
    IN  IF n = <<>> /\ ~p.abs THEN P(FALSE, <<Dot>>) ELSE P(p.abs, n)

pathDirname(p) ==
    IF Len(p.segs) <= 1
    THEN (IF p.abs THEN P(TRUE, <<>>) ELSE P(FALSE, <<Dot>>))
    ELSE P(p.abs, Front(p.segs))

\* process.cwd()
Cwd == P(TRUE, <<<<"project">>>>)

\* path.resolve(baseDir, spec)
pathResolve(baseDir, spec) ==
    IF spec.abs THEN pathNormalize(spec)
    ELSE IF baseDir.abs THEN pathNormalize(P(TRUE, baseDir.segs \o spec.segs))
    ELSE pathNormalize(P(TRUE, Cwd.segs \o baseDir.segs \o spec.segs))

\* path.parse: dir, name and ext of the last segment
parseDir(p) == IF Len(p.segs) <= 1 THEN P(p.abs, <<>>) ELSE P(p.abs, Front(p.segs))
parseName(p) ==
    IF p.segs = <<>> THEN <<>>
    ELSE IF Len(Last(p.segs)) > 1 THEN Front(Last(p.segs)) ELSE Last(p.segs)

normalizePathKey(filePath) ==
    LET dir == parseDir(filePath)
        name == parseName(filePath)
        noExt == IF name = <<"index">> THEN dir
                 ELSE P(dir.abs, dir.segs \o (IF name = <<>> THEN <<>> ELSE <<name>>))
    IN  pathNormalize(noExt)

getFileKey(filePath) == normalizePathKey(filePath)

\* A specifier is [kind, segs]: "rel" starts with "." , "abs" with "/", "bare" is
\* a package name; "none" stands for a statement without module specifier.
NoSpec == [kind |-> "none", segs |-> <<>>]
Rel(segs) == [kind |-> "rel", segs |-> segs]
Bare(segs) == [kind |-> "bare", segs |-> segs]

getModuleKeyFromSpecifier(spec, containingFile) ==
    IF spec.kind \in {"rel", "abs"}
    THEN normalizePathKey(pathResolve(pathDirname(containingFile),
                                      P(spec.kind = "abs", spec.segs)))
    ELSE P(FALSE, spec.segs)

(***************************************************************************)
(* Syntax trees. A node is [t, name, alias, mod, from, kids]:              *)
(*   var        VariableStatement, kids are its declarations               *)
(*   vdecl      VariableDeclaration name, kids <<initializer>>             *)
(*   function   FunctionDeclaration name, kids the statements of its body  *)
(*   class      ClassDeclaration name, kids its members                    *)
(*   method     MethodDeclaration name, kids the statements of its body    *)
(*   enum, interface, type   the declaration of that kind, name            *)
(*   namespace  ModuleDeclaration name, kids the statements of its         *)
(*              ModuleBlock                                                *)
(*   block      Block, kids its statements                                 *)
(*   arrow      ArrowFunction, kids its body                               *)
(*   call, new  kids <<expression, argument, ...>>                         *)
(*   prop       PropertyAccessExpression, kids <<expression>>, name        *)
(*   id         Identifier name;  lit  a literal                           *)
(*   export     ExportDeclaration, kids its export specifiers, from        *)
(*   espec      ExportSpecifier: name, alias is propertyName ("" if none)  *)
(*   exportAssign  ExportAssignment, kids <<expression>>                   *)
(*   import     ImportDeclaration: name is the default binding ("" if      *)
(*              none), kids the named import specifiers, from              *)
(*   ispec      ImportSpecifier: name, alias is propertyName ("" if none)  *)
(* mod is the export modifier of a declaration statement: "" or "export".  *)
(***************************************************************************)
N(t, name, alias, mod, from, kids) ==
    [t |-> t, name |-> name, alias |-> alias, mod |-> mod, from |-> from, kids |-> kids]

Id(name) == N("id", name, "", "", NoSpec, <<>>)
Lit == N("lit", "", "", "", NoSpec, <<>>)
Call(callee, args) == N("call", "", "", "", NoSpec, <<callee>> \o args)
New(callee, args) == N("new", "", "", "", NoSpec, <<callee>> \o args)
Prop(obj, name) == N("prop", name, "", "", NoSpec, <<obj>>)
Arrow(body) == N("arrow", "", "", "", NoSpec, body)
Block(stmts) == N("block", "", "", "", NoSpec, stmts)
VDecl(name, init) == N("vdecl", name, "", "", NoSpec, init)
Var(mod, decls) == N("var", "", "", mod, NoSpec, decls)
Decl(kind, mod, name, body) == N(kind, name, "", mod, NoSpec, body)
Method(name, body) == N("method", name, "", "", NoSpec, body)
ESpec(name, alias) == N("espec", name, alias, "", NoSpec, <<>>)
Export(specs) == N("export", "", "", "", NoSpec, specs)
ExportAssign(expr) == N("exportAssign", "", "", "", NoSpec, <<expr>>)
ISpec(name, alias) == N("ispec", name, alias, "", NoSpec, <<>>)
Import(default, specs, from) == N("import", default, "", "", from, specs)

WithName(node, name) == [node EXCEPT !.name = name]
WithKids(node, kids) == [node EXCEPT !.kids = kids]

(***************************************************************************)
(* collector (src/opt/index.ts 474-565)                                    *)
(***************************************************************************)
\* the node kinds visitNode names with a .name at global scope
NamedDeclKinds == {"function", "class", "enum", "interface", "type"}
\* the node kinds below which visitNode passes isGlobalScope = false
ScopeKinds == {"block", "function", "funcexpr", "arrow", "method", "class"}

\* the names visitNode adds for the node itself
CollectOwnAnyScope(node, isGlobalScope) ==
    IF node.t = "var"
    THEN [i \in 1..Len(SelectSeq(node.kids, LAMBDA d : d.name # "")) |->
             SelectSeq(node.kids, LAMBDA d : d.name # "")[i].name]
    ELSE IF node.t \in NamedDeclKinds /\ node.name # "" THEN <<node.name>>
    ELSE <<>>
CollectOwn(node, isGlobalScope) ==
    IF ~isGlobalScope THEN <<>>
    ELSE IF node.t = "var"
    THEN [i \in 1..Len(SelectSeq(node.kids, LAMBDA d : d.name # "")) |->
             SelectSeq(node.kids, LAMBDA d : d.name # "")[i].name]
    ELSE IF node.t \in NamedDeclKinds /\ node.name # "" THEN <<node.name>>
    ELSE <<>>

RECURSIVE visitNode(_, _)
\* the names visitNode(node, isGlobalScope) adds to namesMap, in the order added
visitNode(node, isGlobalScope) ==
    LET below == IF node.t \in ScopeKinds THEN FALSE ELSE isGlobalScope
    IN  CollectOwn(node, isGlobalScope)
        \o Flatten([i \in 1..Len(node.kids) |-> visitNode(node.kids[i], below)])

\* namesMap.set($name, new Set([{ file }])) / namesMap.get($name).add({ file }):
\* every add is a new object, so the Set keeps one member per add
AddName(nm, name, file) ==
    IF name \notin DOMAIN nm THEN [n \in DOMAIN nm \cup {name} |->
                                     IF n = name THEN <<file>> ELSE nm[n]]
    ELSE [nm EXCEPT ![name] = Append(@, file)]

RECURSIVE AddNames(_, _, _)
AddNames(nm, nms, file) ==
    IF nms = <<>> THEN nm ELSE AddNames(AddName(nm, Head(nms), file), Tail(nms), file)

\* the collector handler on one module: namesMap after it (content is returned as is)
collector(nm, m) ==
    AddNames(nm, Flatten([i \in 1..Len(m.content) |-> visitNode(m.content[i], TRUE)]), m.file)

\* namesMap.has(base) && namesMap.get(base).size > 1
IsDup(nm, base) == base \in DOMAIN nm /\ Len(nm[base]) > 1

(***************************************************************************)
(* updater (src/opt/index.ts 576-672). The visitor's state is the names    *)
(* array of dupName and callNameMap; Upd returns the node and both.        *)
(***************************************************************************)
Entry(base, file, newName) == [base |-> base, file |-> file, newName |-> newName]

\* st after dupName.getName(base); callNameMap.push({ base, file, newName })
Rename(st, base, file) ==
    [names |-> Append(st.names, dupName(base, st.names)),
     call |-> Append(st.call, Entry(base, file, dupName(base, st.names)))]

RECURSIVE UpdDecls(_, _, _, _)
\* node.declarationList.declarations.map(...)
UpdDecls(decls, file, nm, st) ==
    IF decls = <<>> THEN [nodes |-> <<>>, st |-> st]
    ELSE LET d == Head(decls)
             hit == d.name # "" /\ IsDup(nm, d.name)
             st1 == IF hit THEN Rename(st, d.name, file) ELSE st
             d1 == IF hit THEN WithName(d, Last(st1.names)) ELSE d
             rest == UpdDecls(Tail(decls), file, nm, st1)
         IN  [nodes |-> <<d1>> \o rest.nodes, st |-> rest.st]

RECURSIVE UpdVisitor(_, _, _, _), UpdEachChild(_, _, _, _)
\* the updater's visitor on one node
UpdVisitor(node, file, nm, st) ==
    IF node.t = "var"
    THEN LET r == UpdDecls(node.kids, file, nm, st)
         IN  [node |-> WithKids(node, r.nodes), st |-> r.st]
    ELSE IF node.t \in {"function", "class"} /\ node.name # "" /\ IsDup(nm, node.name)
    THEN LET st1 == Rename(st, node.name, file)
         IN  [node |-> WithName(node, Last(st1.names)), st |-> st1]
    ELSE LET r == UpdEachChild(node.kids, file, nm, st)
         IN  [node |-> WithKids(node, r.nodes), st |-> r.st]

\* ts.visitEachChild(node, visitor, context), children in source order
UpdEachChild(kids, file, nm, st) ==
    IF kids = <<>> THEN [nodes |-> <<>>, st |-> st]
    ELSE LET r1 == UpdVisitor(Head(kids), file, nm, st)
             rest == UpdEachChild(Tail(kids), file, nm, r1.st)
         IN  [nodes |-> <<r1.node>> \o rest.nodes, st |-> rest.st]

\* the updater handler on one module
updater(nm, m, st) ==
    LET r == UpdEachChild(m.content, m.file, nm, st)
    IN  [m |-> [file |-> m.file, content |-> r.nodes], st |-> r.st]

(***************************************************************************)
(* callExpression (src/opt/index.ts 131-233)                               *)
(***************************************************************************)
Found(e) == e # NoEntry

\* new_name of the three branches: the call-site mapping first, then the import one
RefNewNameImportFirst(base, file, callMap, importMap) ==
    IF Found(Find(importMap, base, file)) THEN Find(importMap, base, file).newName
    ELSE IF Found(Find(callMap, base, file)) THEN Find(callMap, base, file).newName
    ELSE ""
RefNewName(base, file, callMap, importMap) ==
    IF Found(Find(callMap, base, file)) THEN Find(callMap, base, file).newName
    ELSE IF Found(Find(importMap, base, file)) THEN Find(importMap, base, file).newName
    ELSE ""

RefKinds == {"call", "prop", "new"}

RECURSIVE RefVisitor(_, _, _, _)
\* the visitor: a rewritten node is returned with its other children as they were
RefVisitor(node, file, callMap, importMap) ==
    IF /\ node.t \in RefKinds
       /\ node.kids[1].t = "id"
       /\ RefNewName(node.kids[1].name, file, callMap, importMap) # ""
    THEN WithKids(node, <<Id(RefNewName(node.kids[1].name, file, callMap, importMap))>>
                        \o Tail(node.kids))
    ELSE WithKids(node, [i \in 1..Len(node.kids) |->
                            RefVisitor(node.kids[i], file, callMap, importMap)])

\* callExpression returning the module under its key instead of its file
CallExpressionKeyed(callMap, importMap, m) ==
    [file |-> getFileKey(m.file),
     content |-> [i \in 1..Len(m.content) |->
                     RefVisitor(m.content[i], m.file, callMap, importMap)]]
\* the callExpression handler on one module
callExpression(callMap, importMap, m) ==
    [file |-> m.file,
     content |-> [i \in 1..Len(m.content) |->
                     RefVisitor(m.content[i], m.file, callMap, importMap)]]

(***************************************************************************)
(* exportExpression (src/opt/index.ts 245-334)                             *)
(***************************************************************************)
\* the name an export site is looked up by: node.name of a specifier, the
\* expression of an assignment when it is an identifier
ExportBase(node) ==
    IF node.t = "espec" THEN node.name
    ELSE IF node.t = "exportAssign" /\ node.kids[1].t = "id" THEN node.kids[1].name
    ELSE ""

ExportRenamed(node, newName) ==
    IF node.t = "espec" THEN WithName(node, newName) ELSE WithKids(node, <<Id(newName)>>)

RECURSIVE ExpVisitor(_, _, _, _, _), ExpEachChild(_, _, _, _, _)
\* the visitor with exportNameMap.push in the import-mapping branch as well
ExpVisitorPushImport(node, file, callMap, importMap, exp) ==
    LET base == ExportBase(node)
        mapping == Find(callMap, base, file)
        importMapping == Find(importMap, base, file)
    IN  IF base # "" /\ Found(mapping)
        THEN [node |-> ExportRenamed(node, mapping.newName),
              exp |-> Append(exp, Entry(base, getFileKey(file), mapping.newName))]
        ELSE IF base # "" /\ Found(importMapping)
        THEN [node |-> ExportRenamed(node, importMapping.newName),
              exp |-> Append(exp, Entry(base, getFileKey(file), importMapping.newName))]
        ELSE LET r == ExpEachChild(node.kids, file, callMap, importMap, exp)
             IN  [node |-> WithKids(node, r.nodes), exp |-> r.exp]
\* the visitor on one node; exp is exportNameMap, returned with the pushes made
ExpVisitor(node, file, callMap, importMap, exp) ==
    LET base == ExportBase(node)
        mapping == Find(callMap, base, file)
        importMapping == Find(importMap, base, file)
    IN  IF base # "" /\ Found(mapping)
        THEN [node |-> ExportRenamed(node, mapping.newName),
              exp |-> Append(exp, Entry(base, getFileKey(file), mapping.newName))]
        ELSE IF base # "" /\ Found(importMapping)
        THEN [node |-> ExportRenamed(node, importMapping.newName), exp |-> exp]
        ELSE LET r == ExpEachChild(node.kids, file, callMap, importMap, exp)
             IN  [node |-> WithKids(node, r.nodes), exp |-> r.exp]

ExpEachChild(kids, file, callMap, importMap, exp) ==
    IF kids = <<>> THEN [nodes |-> <<>>, exp |-> exp]
    ELSE LET r1 == ExpVisitor(Head(kids), file, callMap, importMap, exp)
             rest == ExpEachChild(Tail(kids), file, callMap, importMap, r1.exp)
         IN  [nodes |-> <<r1.node>> \o rest.nodes, exp |-> rest.exp]

\* the exportExpression handler on one module
exportExpression(callMap, importMap, exp, m) ==
    LET r == ExpEachChild(m.content, m.file, callMap, importMap, exp)
    IN  [m |-> [file |-> m.file, content |-> r.nodes], exp |-> r.exp]

(***************************************************************************)
(* importExpression (src/opt/index.ts 343-464)                             *)
(***************************************************************************)
RECURSIVE ImpElements(_, _, _, _, _)
\* node.importClause.namedBindings.elements.map(...): imp is importNameMap
ImpElements(els, file, moduleKey, exp, imp) ==
    IF els = <<>> THEN [nodes |-> <<>>, imp |-> imp]
    ELSE LET el == Head(els)
             mapping == Find(exp, el.name, moduleKey)
             imp1 == IF Found(mapping)
                     THEN Append(imp, Entry(mapping.base, file, mapping.newName))
                     ELSE imp
             el1 == IF Found(mapping) THEN WithName(el, mapping.newName) ELSE el
             rest == ImpElements(Tail(els), file, moduleKey, exp, imp1)
         IN  [nodes |-> <<el1>> \o rest.nodes, imp |-> rest.imp]

RECURSIVE ImpVisitor(_, _, _, _), ImpEachChild(_, _, _, _)
\* the visitor on one node
ImpVisitor(node, file, exp, imp) ==
    LET moduleKey == getModuleKeyFromSpecifier(node.from, file)
        mapping == Find(exp, node.name, moduleKey)
    IN  IF node.t = "import" /\ node.name # "" /\ Found(mapping)
        THEN [node |-> WithName(node, mapping.newName),
              imp |-> Append(imp, Entry(mapping.base, file, mapping.newName))]
        ELSE IF node.t = "import" /\ Len(node.kids) > 0
        THEN LET r == ImpElements(node.kids, file, moduleKey, exp, imp)
             IN  [node |-> WithKids(node, r.nodes), imp |-> r.imp]
        ELSE LET r == ImpEachChild(node.kids, file, exp, imp)
             IN  [node |-> WithKids(node, r.nodes), imp |-> r.imp]

ImpEachChild(kids, file, exp, imp) ==
    IF kids = <<>> THEN [nodes |-> <<>>, imp |-> imp]
    ELSE LET r1 == ImpVisitor(Head(kids), file, exp, imp)
             rest == ImpEachChild(Tail(kids), file, exp, r1.imp)
         IN  [nodes |-> <<r1.node>> \o rest.nodes, imp |-> rest.imp]

\* the importExpression handler on one module
importExpression(exp, imp, m) ==
    LET r == ImpEachChild(m.content, m.file, exp, imp)
    IN  [m |-> [file |-> m.file, content |-> r.nodes], imp |-> r.imp]

(***************************************************************************)
(* duplicateHandlers (src/opt/index.ts 677-758)                            *)
(***************************************************************************)
\* the handlers resolves([...]).concurrent() yields for renamed, in array order
RenamedHandlersNoSecondPass ==
    <<"collector", "updater", "callExpression", "exportExpression", "importExpression">>
RenamedHandlers ==
    <<"collector", "updater", "callExpression", "exportExpression", "importExpression",
      "callExpression", "exportExpression">>
\* and for notRenamed
NotRenamedHandlers == <<"collector">>

Handlers == IF op = "notRenamed" THEN NotRenamedHandlers ELSE RenamedHandlers
Running == op \in {"renamed", "notRenamed"} /\ stage <= Len(Handlers)
Handler == Handlers[stage]

Min(S) == CHOOSE i \in S : \A j \in S : i <= j
EmptyMap == [n \in {} |-> <<>>]

\* the module deps.map hands to the handler next
NextModule(i) == Running /\ todo # {} /\ i = Min(todo)

\* the handler returned r for deps[i]: deps.map stores it; when the array is
\* complete it becomes deps and the next handler starts; after the last handler
\* renamed returns deps
Stored(i, r) ==
    LET w == [work EXCEPT ![i] = r]
        last == todo = {i}
    IN  /\ work' = w
        /\ todo' = IF last THEN 1..Len(deps) ELSE todo \ {i}
        /\ deps' = IF last /\ op = "renamed" THEN w ELSE deps
        /\ stage' = IF last THEN stage + 1 ELSE stage
        /\ op' = IF last /\ op = "renamed" /\ stage = Len(Handlers) THEN "idle" ELSE op
        /\ done' = [done EXCEPT ![i] = Append(@, Handler)]

\* the caller calls renamed(deps, new Map(), [], [], [], compilerOptions)
CallRenamed(b, maxRuns) ==
    /\ op = "idle"
    /\ runs < maxRuns
    /\ op' = "renamed"
    /\ runs' = runs + 1
    /\ input' = b
    /\ deps' = b
    /\ work' = b
    /\ stage' = 1
    /\ todo' = 1..Len(b)
    /\ namesMap' = EmptyMap
    /\ callNameMap' = <<>>
    /\ importNameMap' = <<>>
    /\ exportNameMap' = <<>>
    /\ reported' = {}
    /\ done' = [i \in 1..Len(b) |-> <<>>]
    /\ UNCHANGED <<names, genVars, keyVars>>

\* the caller calls renamed(deps, new Map(), callNameMap, importNameMap,
\* exportNameMap, compilerOptions) with arrays that already hold entries
CallRenamedWith(b, call, imp, exp) ==
    /\ op = "idle"
    /\ runs = 0
    /\ op' = "renamed"
    /\ runs' = runs + 1
    /\ input' = b
    /\ deps' = b
    /\ work' = b
    /\ stage' = 1
    /\ todo' = 1..Len(b)
    /\ namesMap' = EmptyMap
    /\ callNameMap' = call
    /\ importNameMap' = imp
    /\ exportNameMap' = exp
    /\ reported' = {}
    /\ done' = [i \in 1..Len(b) |-> <<>>]
    /\ UNCHANGED <<names, genVars, keyVars>>

\* the caller calls notRenamed(deps, new Map(), compilerOptions)
CallNotRenamed(b) ==
    /\ op = "idle"
    /\ op' = "notRenamed"
    /\ input' = b
    /\ deps' = b
    /\ work' = b
    /\ stage' = 1
    /\ todo' = 1..Len(b)
    /\ namesMap' = EmptyMap
    /\ reported' = {}
    /\ done' = [i \in 1..Len(b) |-> <<>>]
    /\ UNCHANGED <<names, runs, callNameMap, importNameMap, exportNameMap, genVars, keyVars>>

Collector(i) ==
    /\ NextModule(i)
    /\ Handler = "collector"
    /\ namesMap' = collector(namesMap, deps[i])
    /\ Stored(i, deps[i])
    /\ UNCHANGED <<names, input, callNameMap, importNameMap, exportNameMap, reported, runs,
                   genVars, keyVars>>

Updater(i) ==
    /\ NextModule(i)
    /\ Handler = "updater"
    /\ LET r == updater(namesMap, deps[i], [names |-> names, call |-> callNameMap])
       IN  /\ names' = r.st.names
           /\ callNameMap' = r.st.call
           /\ Stored(i, r.m)
    /\ UNCHANGED <<input, namesMap, importNameMap, exportNameMap, reported, runs,
                   genVars, keyVars>>

CallExpression(i) ==
    /\ NextModule(i)
    /\ Handler = "callExpression"
    /\ Stored(i, callExpression(callNameMap, importNameMap, deps[i]))
    /\ UNCHANGED <<names, input, namesMap, callNameMap, importNameMap, exportNameMap,
                   reported, runs, genVars, keyVars>>

ExportExpression(i) ==
    /\ NextModule(i)
    /\ Handler = "exportExpression"
    /\ LET r == exportExpression(callNameMap, importNameMap, exportNameMap, deps[i])
       IN  /\ exportNameMap' = r.exp
           /\ Stored(i, r.m)
    /\ UNCHANGED <<names, input, namesMap, callNameMap, importNameMap, reported, runs,
                   genVars, keyVars>>

ImportExpression(i) ==
    /\ NextModule(i)
    /\ Handler = "importExpression"
    /\ LET r == importExpression(exportNameMap, importNameMap, deps[i])
       IN  /\ importNameMap' = r.imp
           /\ Stored(i, r.m)
    /\ UNCHANGED <<names, input, namesMap, callNameMap, exportNameMap, reported, runs,
                   genVars, keyVars>>

\* The three rewriting handlers with the modules of a stage taken in any order,
\* one at a time; the array of results is the one deps.map builds
AnyModule(i) == Running /\ i \in todo

CallExpressionAnyOrder(i) ==
    /\ AnyModule(i)
    /\ Handler = "callExpression"
    /\ Stored(i, callExpression(callNameMap, importNameMap, deps[i]))
    /\ UNCHANGED <<names, input, namesMap, callNameMap, importNameMap, exportNameMap,
                   reported, runs, genVars, keyVars>>

ExportExpressionAnyOrder(i) ==
    /\ AnyModule(i)
    /\ Handler = "exportExpression"
    /\ LET r == exportExpression(callNameMap, importNameMap, exportNameMap, deps[i])
       IN  /\ exportNameMap' = r.exp
           /\ Stored(i, r.m)
    /\ UNCHANGED <<names, input, namesMap, callNameMap, importNameMap, reported, runs,
                   genVars, keyVars>>

ImportExpressionAnyOrder(i) ==
    /\ AnyModule(i)
    /\ Handler = "importExpression"
    /\ LET r == importExpression(exportNameMap, importNameMap, deps[i])
       IN  /\ importNameMap' = r.imp
           /\ Stored(i, r.m)
    /\ UNCHANGED <<names, input, namesMap, callNameMap, exportNameMap, reported, runs,
                   genVars, keyVars>>

\* renamed as a function of the batch: st is [deps, names, nm, call, imp, exp]
ApplyHandler(h, st, i) ==
    IF h = "collector" THEN [st EXCEPT !.nm = collector(st.nm, st.deps[i])]
    ELSE IF h = "updater"
    THEN LET r == updater(st.nm, st.deps[i], [names |-> st.names, call |-> st.call])
         IN  [st EXCEPT !.deps[i] = r.m, !.names = r.st.names, !.call = r.st.call]
    ELSE IF h = "callExpression"
    THEN [st EXCEPT !.deps[i] = callExpression(st.call, st.imp, st.deps[i])]
    ELSE IF h = "exportExpression"
    THEN LET r == exportExpression(st.call, st.imp, st.exp, st.deps[i])
         IN  [st EXCEPT !.deps[i] = r.m, !.exp = r.exp]
    ELSE LET r == importExpression(st.exp, st.imp, st.deps[i])
         IN  [st EXCEPT !.deps[i] = r.m, !.imp = r.imp]

RECURSIVE MapHandler(_, _, _)
\* deps = deps.map(func), from module i on
MapHandler(h, st, i) ==
    IF i > Len(st.deps) THEN st ELSE MapHandler(h, ApplyHandler(h, st, i), i + 1)

RECURSIVE ForHandlers(_, _)
\* for (const func of duplicate) deps = deps.map(func)
ForHandlers(hs, st) ==
    IF hs = <<>> THEN st ELSE ForHandlers(Tail(hs), MapHandler(Head(hs), st, 1))

\* what renamed(b, new Map(), [], [], []) returns when dupName has made nms
renamed(b, nms) ==
    ForHandlers(RenamedHandlers,
                [deps |-> b, names |-> nms, nm |-> EmptyMap,
                 call |-> <<>>, imp |-> <<>>, exp |-> <<>>]).deps

\* namesMap.forEach: the names whose Set has size > 1
Reportable(nm) == {n \in DOMAIN nm : Len(nm[n]) > 1}

\* notRenamed after deps.map(duplicate[0]): warn, then process.exit(1) or return deps
NotRenamedReport ==
    /\ op = "notRenamed"
    /\ stage = Len(NotRenamedHandlers) + 1
    /\ reported' = Reportable(namesMap)
    /\ op' = IF Reportable(namesMap) # {} THEN "exited" ELSE "idle"
    /\ stage' = stage + 1
    /\ UNCHANGED <<names, input, deps, todo, work, namesMap, callNameMap, importNameMap,
                   exportNameMap, runs, done, genVars, keyVars>>

(***************************************************************************)
(* The batches the caller passes. Module files are absolute paths below    *)
(* /project, as in the repository's test.                                  *)
(***************************************************************************)
Mod(file, content) == [file |-> file, content |-> content]
File(segs) == P(TRUE, <<<<"project">>>> \o segs)
FileA == File(<<<<"a">>, <<"index", "ts">>>>)
FileB == File(<<<<"b">>, <<"index", "ts">>>>)
FileR == File(<<<<"r", "ts">>>>)
FileMain == File(<<<<"main", "ts">>>>)
FileAts == File(<<<<"a", "ts">>>>)

SpecA == Rel(<<Dot, <<"a">>>>)
SpecAIndex == Rel(<<Dot, <<"a">>, <<"index">>>>)
SpecB == Rel(<<Dot, <<"b">>>>)
SpecR == Rel(<<Dot, <<"r">>>>)
SpecPkg == Bare(<<<<"a">>>>)

DeclKinds == {"var", "function", "class", "enum", "interface", "type"}
\* a declaration statement of the kind, with the export modifier mod
DeclOf(kind, mod, name) ==
    IF kind = "var" THEN Var(mod, <<VDecl(name, <<Arrow(<<Lit>>)>>)>>)
    ELSE Decl(kind, mod, name, <<>>)

\* the repository's test: a/index.ts, b/index.ts, main.ts
TestBatch ==
    <<Mod(FileA, <<DeclOf("var", "", "foo"), Export(<<ESpec("foo", "")>>)>>),
      Mod(FileB, <<DeclOf("var", "", "foo"), Export(<<ESpec("foo", "")>>)>>),
      Mod(FileMain, <<Import("", <<ISpec("foo", "")>>, SpecA),
                      Var("export", <<VDecl("sum", <<Call(Id("foo"), <<>>)>>)>>)>>)>>

\* Exporting modules: foo declared and exported in one of the export forms
ExportForms == {"named", "inline", "default"}
ExportingContent(kind, form) ==
    IF form = "named" THEN <<DeclOf(kind, "", "foo"), Export(<<ESpec("foo", "")>>)>>
    ELSE IF form = "default" THEN <<DeclOf(kind, "", "foo"), ExportAssign(Id("foo"))>>
    ELSE <<DeclOf(kind, "export", "foo")>>
ExportingContents ==
    {ExportingContent("var", f) : f \in ExportForms} \cup {ExportingContent("function", "inline")}

\* Importing modules: foo imported from spec in one of the import forms, and used
ImportForms == {"named", "default", "alias"}
ImportOf(form, from) ==
    IF form = "named" THEN Import("", <<ISpec("foo", "")>>, from)
    ELSE IF form = "default" THEN Import("foo", <<>>, from)
    ELSE Import("", <<ISpec("f", "foo")>>, from)
LocalOf(form) == IF form = "alias" THEN "f" ELSE "foo"
UseKinds == {"call", "prop"}
UseOf(use, name) ==
    IF use = "call" THEN Var("export", <<VDecl("sum", <<Call(Id(name), <<>>)>>)>>)
    ELSE Var("export", <<VDecl("sum", <<Prop(Id(name), "p")>>)>>)
ImportingContents(froms) ==
    {<<ImportOf(form, from), UseOf(use, LocalOf(form))>> :
        form \in ImportForms, from \in froms, use \in UseKinds}

ExportBatches ==
    {<<Mod(FileA, a), Mod(FileB, <<DeclOf("var", "", n), Export(<<ESpec(n, "")>>)>>),
       Mod(FileMain, c)>> :
        a \in ExportingContents, n \in {"foo", "bar"},
        c \in ImportingContents({SpecA, SpecAIndex, SpecB, SpecPkg})}

\* One re-export hop: a declares, r imports and re-exports, main imports from r
ReExporters ==
    {<<Import("", <<ISpec("foo", "")>>, SpecA), Export(<<ESpec("foo", "")>>)>>,
     <<N("export", "", "", "", SpecA, <<ESpec("foo", "")>>)>>}
ChainBatches ==
    UNION {{<<Mod(FileA, ExportingContent("var", "named")),
              Mod(FileB, <<DeclOf("var", "", "foo")>>),
              Mod(FileR, r),
              Mod(FileMain, <<ImportOf("named", SpecR), UseOf("call", "foo")>>)>>,
            <<Mod(FileMain, <<ImportOf("named", SpecR), UseOf("call", "foo")>>),
              Mod(FileR, r),
              Mod(FileB, <<DeclOf("var", "", "foo")>>),
              Mod(FileA, ExportingContent("var", "named"))>>} : r \in ReExporters}

\* References: call, new and property access on foo, nested up to MaxDepth deep
MaxDepth == 3
RECURSIVE RefExprs(_)
RefExprs(d) ==
    IF d = 1 THEN {Call(Id("foo"), <<>>), New(Id("foo"), <<>>), Prop(Id("foo"), "p")}
    ELSE UNION {{Call(Id("foo"), <<e>>), New(Id("foo"), <<e>>), Call(Id("g"), <<e>>),
                 Prop(e, "p")} : e \in RefExprs(d - 1)}
RefBatches ==
    {<<Mod(FileA, <<DeclOf(k, "", "foo"), e>>), Mod(FileB, <<DeclOf("function", "", "foo")>>)>> :
        k \in {"function", "class"}, e \in UNION {RefExprs(d) : d \in 1..MaxDepth}}

\* Declarations of every kind, at top level and below the scope constructs
Places == {"block", "function", "method", "arrow", "namespace"}
Placed(w, node) ==
    IF w = "block" THEN Block(<<node>>)
    ELSE IF w = "function" THEN Decl("function", "", "outer", <<node>>)
    ELSE IF w = "method" THEN Decl("class", "", "Outer", <<Method("m", <<node>>)>>)
    ELSE IF w = "arrow" THEN Var("", <<VDecl("h", <<Arrow(<<node>>)>>)>>)
    ELSE N("namespace", "NS", "", "", NoSpec, <<node>>)
KindBatches ==
    {<<Mod(FileA, <<DeclOf(k1, "", "foo")>>), Mod(FileB, <<DeclOf(k2, "", n)>>)>> :
        k1 \in DeclKinds, k2 \in DeclKinds, n \in {"foo", "bar"}}
TwiceBatches ==
    {<<Mod(FileA, <<DeclOf(k1, "", "foo"), DeclOf(k2, "", "foo")>>)>> :
        k1 \in DeclKinds, k2 \in DeclKinds}
    \cup {<<Mod(FileA, <<DeclOf(k1, "", "foo"), DeclOf(k2, "", "foo")>>),
            Mod(FileB, <<DeclOf("var", "", n)>>)>> :
        k1 \in DeclKinds, k2 \in DeclKinds, n \in {"foo", "bar"}}
NestedBatches ==
    {<<Mod(FileA, <<Placed(w, DeclOf(k, "", "foo"))>>),
       Mod(FileB, <<DeclOf("function", "", "foo")>>)>> : w \in Places, k \in DeclKinds}
    \cup {<<Mod(FileA, <<DeclOf("function", "", "foo"), Placed(w, DeclOf(k, "", "foo"))>>),
            Mod(FileB, <<DeclOf("function", "", n)>>)>> :
        w \in Places, k \in DeclKinds, n \in {"foo", "bar"}}

\* One import statement with a default binding and a named specifier: a exports
\* foo by default and bar by name, b declares both, main imports both from a
BothBatches ==
    {<<Mod(FileA, <<DeclOf("var", "", "foo"), DeclOf("var", "", "bar"),
                    ExportAssign(Id("foo")), Export(<<ESpec("bar", "")>>)>>),
       Mod(FileB, <<DeclOf("var", "", "foo"), DeclOf("var", "", "bar")>>),
       Mod(FileMain, <<Import("foo", <<ISpec(bar.name, bar.alias)>>, SpecA),
                       UseOf(use, "foo"), Call(Id(bar.name), <<>>)>>)>> :
        bar \in {[name |-> "bar", alias |-> ""], [name |-> "b", alias |-> "bar"]},
        use \in UseKinds}

\* Two files with one module key: a.ts and a/index.ts, both exporting foo
SameKeyBatches ==
    {<<Mod(FileAts, ExportingContent("var", f1)), Mod(FileA, ExportingContent("var", f2)),
       Mod(FileMain, <<ImportOf(f, SpecA), UseOf("call", "foo")>>)>> :
        f1 \in {"named", "default"}, f2 \in {"named", "default"}, f \in {"named", "default"}}
\* the batches of a process whose stages take the modules in any order
OrderBatches == {TestBatch} \cup ChainBatches \cup BothBatches \cup SameKeyBatches

Batches ==
    {TestBatch} \cup ExportBatches \cup ChainBatches \cup RefBatches \cup KindBatches
    \cup TwiceBatches \cup NestedBatches \cup BothBatches

\* A module that declares foo, imports foo from a, refers to foo and exports it
LocalAndImported(kind, e, form) ==
    <<ImportOf("named", SpecA), DeclOf(kind, "", "foo"), e>>
    \o (IF form = "named" THEN <<Export(<<ESpec("foo", "")>>)>> ELSE <<ExportAssign(Id("foo"))>>)
MapBatches ==
    UNION {{<<Mod(FileMain, LocalAndImported(k, e, f)), Mod(FileA, ExportingContent("var", "named"))>>,
            <<Mod(FileA, ExportingContent("var", "named")), Mod(FileMain, LocalAndImported(k, e, f))>>} :
           k \in {"var", "function", "class"}, e \in RefExprs(1) \cup RefExprs(2),
           f \in {"named", "default"}}
\* the import maps a caller passes: a new array, or one that holds entries
SuppliedImportMaps ==
    {<<>>,
     <<Entry("foo", FileMain, "d_foo_7")>>,
     <<Entry("foo", FileA, "d_foo_8"), Entry("foo", FileMain, "d_foo_7")>>}

\* the batches of a process that calls renamed several times
RunBatches ==
    {TestBatch} \cup {b \in KindBatches : b[1].content[1].t \in {"var", "function"}
                                          /\ b[2].content[1].t \in {"class", "enum"}}

(***************************************************************************)
(* One uniqueName() instance and the generators its setPrefix returns      *)
(***************************************************************************)
PrefixKeys == {"DuplicatesNames", "Other"}
PrefixValues == {"d_", ""}
InputNames == {"foo", "bar"}
MaxNames == 2

\* what a call returned: the name of getName, or that setPrefix threw
Ret(call, key, arg, threw, name) ==
    [call |-> call, key |-> key, arg |-> arg, threw |-> threw, name |-> name]
NoRet == Ret("", "", "", FALSE, "")

\* storedPrefix.has(key) of setPrefix, never true
HasPrefixNever(key) == FALSE
HasPrefix(key) == key \in DOMAIN storedPrefix

\* setPrefix({ key, value }): throws when the key is stored, else stores the value
\* and returns a generator with an empty names array
SetPrefix(key, value) ==
    /\ IF HasPrefix(key)
       THEN /\ genRet' = Ret("setPrefix", key, value, TRUE, "")
            /\ UNCHANGED <<storedPrefix, gens>>
       ELSE /\ genRet' = Ret("setPrefix", key, value, FALSE, "")
            /\ storedPrefix' = [k \in DOMAIN storedPrefix \cup {key} |->
                                  IF k = key THEN value ELSE storedPrefix[k]]
            /\ gens' = [k \in DOMAIN gens \cup {key} |-> IF k = key THEN <<>> ELSE gens[k]]
    /\ UNCHANGED <<keyVars, pipeVars>>

\* getName(input) of the generator setPrefix returned for key
GetName(key, inp) ==
    /\ key \in DOMAIN gens
    /\ Len(gens[key]) < MaxNames
    /\ genRet' = Ret("getName", key, inp, FALSE, getName(storedPrefix[key], inp, gens[key]))
    /\ gens' = [gens EXCEPT ![key] = Append(@, getName(storedPrefix[key], inp, gens[key]))]
    /\ UNCHANGED <<storedPrefix, keyVars, pipeVars>>

(***************************************************************************)
(* The module key of a directory's index file and of the two specifiers    *)
(* that name the directory                                                 *)
(***************************************************************************)
MaxDirs == 2
DirNames == {<<"a">>, <<"lib">>, <<"index">>, <<"v1", "2">>}
IndexExts == {"ts", "tsx", "js"}
Importers == {P(TRUE, <<<<"project">>, <<"main", "ts">>>>),
              P(TRUE, <<<<"project">>, <<"src">>, <<"main", "ts">>>>),
              P(FALSE, <<<<"src">>, <<"main", "ts">>>>),
              P(FALSE, <<<<"main", "ts">>>>)}
DirPaths == UNION {[1..n -> DirNames] : n \in 1..MaxDirs}
NoKeys == [set |-> FALSE]

\* the index file of directory dir beside the importer
IndexFile(dir, importer, ext) ==
    P(importer.abs, Front(importer.segs) \o dir \o <<<<"index", ext>>>>)

ResolveKeys(dir, importer, ext) ==
    /\ keyIn = NoKeys
    /\ keyIn' = [set |-> TRUE, dir |-> dir, importer |-> importer, ext |-> ext]
    /\ keyOut' = [viaDir |-> getModuleKeyFromSpecifier(Rel(<<Dot>> \o dir), importer),
                  viaIndex |-> getModuleKeyFromSpecifier(
                                  Rel(<<Dot>> \o dir \o <<<<"index">>>>), importer),
                  fileKey |-> getFileKey(IndexFile(dir, importer, ext))]
    /\ UNCHANGED <<genVars, pipeVars>>

(***************************************************************************)
(* Specifications                                                          *)
(***************************************************************************)
Init ==
    /\ storedPrefix = EmptyMap
    /\ gens = EmptyMap
    /\ genRet = NoRet
    /\ keyIn = NoKeys
    /\ keyOut = NoKeys
    /\ names = <<>>
    /\ op = "idle"
    /\ input = <<>>
    /\ deps = <<>>
    /\ stage = 0
    /\ todo = {}
    /\ work = <<>>
    /\ namesMap = EmptyMap
    /\ callNameMap = <<>>
    /\ importNameMap = <<>>
    /\ exportNameMap = <<>>
    /\ reported = {}
    /\ runs = 0
    /\ done = <<>>

\* the handlers as deps.map runs them
Handle ==
    \E i \in 1..Len(deps) :
        \/ Collector(i)
        \/ Updater(i)
        \/ CallExpression(i)
        \/ ExportExpression(i)
        \/ ImportExpression(i)

\* notRenamed on a batch as the process starts, or on what renamed returned
Verify ==
    \/ \E b \in Batches : runs = 0 /\ input = <<>> /\ CallNotRenamed(b)
    \/ runs > 0 /\ input # deps /\ CallNotRenamed(deps)
    \/ NotRenamedReport

\* a process that calls renamed once
Next ==
    \/ \E b \in Batches : CallRenamed(b, 1)
    \/ Handle
    \/ Verify

Spec == Init /\ [][Next]_vars

\* a process that calls renamed up to MaxRuns times
MaxRuns == 2
NextRuns ==
    \/ \E b \in RunBatches : CallRenamed(b, MaxRuns)
    \/ Handle

SpecRuns == Init /\ [][NextRuns]_vars

\* a process that calls renamed once, the rewriting stages taking the modules in
\* any order
HandleAnyOrder ==
    \E i \in 1..Len(deps) :
        \/ Collector(i)
        \/ Updater(i)
        \/ CallExpressionAnyOrder(i)
        \/ ExportExpressionAnyOrder(i)
        \/ ImportExpressionAnyOrder(i)

NextAnyOrder ==
    \/ \E b \in OrderBatches : CallRenamed(b, 1)
    \/ HandleAnyOrder

SpecAnyOrder == Init /\ [][NextAnyOrder]_vars

\* a process that calls renamed once, with an import map of its own
NextMaps ==
    \/ \E b \in MapBatches, imp \in SuppliedImportMaps : CallRenamedWith(b, <<>>, imp, <<>>)
    \/ Handle

SpecMaps == Init /\ [][NextMaps]_vars

NextGen ==
    \/ \E k \in PrefixKeys, v \in PrefixValues : SetPrefix(k, v)
    \/ \E k \in PrefixKeys, n \in InputNames : GetName(k, n)

SpecGen == Init /\ [][NextGen]_vars

NextKey ==
    \E dir \in DirPaths, importer \in Importers, ext \in IndexExts :
        ResolveKeys(dir, importer, ext)

SpecKey == Init /\ [][NextKey]_vars

(***************************************************************************)
(* Vocabulary of the properties: top-level declarations and collisions as  *)
(* the glossary defines them, import, export and reference sites           *)
(***************************************************************************)
Range(f) == {f[i] : i \in DOMAIN f}

\* renamed has returned; notRenamed has reported
Returned == op = "idle" /\ runs > 0 /\ stage = Len(RenamedHandlers) + 1
Verified == op \in {"idle", "exited"} /\ stage = Len(NotRenamedHandlers) + 2

\* the declarations written directly in the module body: statement i, and
\* declaration j of a variable statement (j = 0 for the other kinds)
TopDecls(m) ==
    {[i |-> i, j |-> 0, name |-> m.content[i].name] :
        i \in {i \in 1..Len(m.content) :
                 m.content[i].t \in NamedDeclKinds /\ m.content[i].name # ""}}
    \cup UNION {{[i |-> i, j |-> j, name |-> m.content[i].kids[j].name] :
                    j \in {j \in 1..Len(m.content[i].kids) : m.content[i].kids[j].name # ""}} :
                i \in {i \in 1..Len(m.content) : m.content[i].t = "var"}}
NameAt(m, d) == IF d.j = 0 THEN m.content[d.i].name ELSE m.content[d.i].kids[d.j].name
TopNames(m) == {d.name : d \in TopDecls(m)}
NamesOf(b) == UNION {TopNames(b[k]) : k \in 1..Len(b)}
DeclaredIn(b, n) == {k \in 1..Len(b) : n \in TopNames(b[k])}
Collides(b, n) == Cardinality(DeclaredIn(b, n)) >= 2
NoCollision(b) == \A n \in NamesOf(b) : ~Collides(b, n)

RECURSIVE Leads(_, _)
\* the leading identifiers of the expressions of the given kinds, in source order
Leads(node, kinds) ==
    (IF node.t \in kinds
     THEN <<IF node.kids[1].t = "id" THEN node.kids[1].name ELSE "">>
     ELSE <<>>)
    \o Flatten([i \in 1..Len(node.kids) |-> Leads(node.kids[i], kinds)])
ModLeads(m, kinds) == Flatten([i \in 1..Len(m.content) |-> Leads(m.content[i], kinds)])

InlineExport(m, d) == m.content[d.i].mod = "export"
\* the specifiers written n, without "as", of the statements of kind t
SpecifierSites(m, t, n) ==
    UNION {{[i |-> i, j |-> j] :
               j \in {j \in 1..Len(m.content[i].kids) :
                        /\ m.content[i].kids[j].name = n
                        /\ m.content[i].kids[j].alias = ""}} :
           i \in {i \in 1..Len(m.content) : m.content[i].t = t}}
ExportSites(m, n) == {s \in SpecifierSites(m, "export", n) : m.content[s.i].from = NoSpec}
DefaultExport(m, n) ==
    \E i \in 1..Len(m.content) : m.content[i].t = "exportAssign" /\ m.content[i].kids[1] = Id(n)
ImportsFromKey(m, i, key) ==
    /\ m.content[i].t = "import"
    /\ m.content[i].from.kind = "rel"
    /\ getModuleKeyFromSpecifier(m.content[i].from, m.file) = key
NamedImportSites(m, n, key) ==
    {s \in SpecifierSites(m, "import", n) : ImportsFromKey(m, s.i, key)}
DefaultImportSites(m, n, key) ==
    {i \in 1..Len(m.content) : ImportsFromKey(m, i, key) /\ m.content[i].name = n}

(***************************************************************************)
(* C1 - C10                                                                *)
(***************************************************************************)
\* the import sites of module b that bind n from module a, in the import form
\* that matches a's export form of declaration d
ImportSitesOf(a, b, d) ==
    IF InlineExport(input[a], d) \/ ExportSites(input[a], d.name) # {}
    THEN NamedImportSites(input[b], d.name, getFileKey(input[a].file))
    ELSE {}
DefaultSitesOf(a, b, d) ==
    IF DefaultExport(input[a], d.name)
    THEN DefaultImportSites(input[b], d.name, getFileKey(input[a].file))
    ELSE {}
\* module a declares a colliding name at d and exports it, module b imports it
\* from a by a relative specifier and calls it
ImportedAndCalled(a, b, d) ==
    /\ a # b
    /\ Collides(input, d.name)
    /\ ImportSitesOf(a, b, d) \cup {[i |-> i, j |-> 0] : i \in DefaultSitesOf(a, b, d)} # {}
    /\ d.name \in Range(ModLeads(input[b], {"call"}))
\* b's import sites and call sites carry the name a's declaration d has in deps
BoundToNewName(a, b, d) ==
    LET new == NameAt(deps[a], d)
        before == ModLeads(input[b], {"call"})
        after == ModLeads(deps[b], {"call"})
    IN  /\ \A s \in ImportSitesOf(a, b, d) : deps[b].content[s.i].kids[s.j].name = new
        /\ \A i \in DefaultSitesOf(a, b, d) : deps[b].content[i].name = new
        /\ \A k \in 1..Len(before) : before[k] = d.name => after[k] = new

\* C1: when renamed has returned, for every module A that declares a colliding
\* top-level name and exports it in whatever form, and every module B that imports
\* the name from A by a relative specifier and calls it, B's import binds the new
\* name of A's declaration and B's call sites use it.
C1_ImportBindsExportedName ==
    Returned =>
        \A a \in 1..Len(input), b \in 1..Len(input) : \A d \in TopDecls(input[a]) :
            ImportedAndCalled(a, b, d) => BoundToNewName(a, b, d)

\* C2: when renamed has returned, no name is a top-level declaration in two or
\* more modules of the returned batch.
C2_NoCollisionAfterRenamed == Returned => NoCollision(deps)

\* C3: when notRenamed has reported on a batch, started with an empty namesMap, a
\* name is reported if and only if it is declared at top level in two or more
\* distinct modules of the batch.
C3_ReportedIffCollides ==
    Verified => \A n \in NamesOf(input) \cup reported : n \in reported <=> Collides(input, n)

\* C4: when renamed has returned on a batch without a top-level name declared in
\* two or more modules, the modules are unchanged, no name was generated and the
\* call-site, import and export maps are empty.
C4_NoCollisionNoChange ==
    (Returned /\ NoCollision(input)) =>
        /\ deps = input
        /\ names = <<>>
        /\ callNameMap = <<>>
        /\ importNameMap = <<>>
        /\ exportNameMap = <<>>

\* C5: in every renamed call of a process, the k-th name generated in the call (the
\* newName of the k-th call-site entry, the maps being fresh) has suffix _k.
C5_SuffixesCountFromOneEachRun ==
    \A k \in 1..Len(callNameMap) :
        callNameMap[k].newName = DupPrefix \o callNameMap[k].base \o "_" \o ToString(k)

\* C6: when renamed has returned, for every top-level declaration that was renamed,
\* every call, property access and new expression of the same module whose leading
\* identifier was the declaration's name has the declaration's new name as its
\* leading identifier, at any nesting depth.
C6_ReferencesFollowDeclaration ==
    Returned =>
        \A m \in 1..Len(input) : \A d \in TopDecls(input[m]) :
            LET new == NameAt(deps[m], d)
                before == ModLeads(input[m], RefKinds)
                after == ModLeads(deps[m], RefKinds)
            IN  new # d.name =>
                    \A k \in 1..Len(before) : before[k] = d.name => after[k] = new

\* module a declares a colliding name at d and exports it, module r imports it from
\* a and re-exports it, module c imports it from r
OneHopChain(a, r, c, d) ==
    /\ a # r /\ r # c /\ a # c
    /\ Collides(input, d.name)
    /\ ExportSites(input[a], d.name) # {}
    /\ NamedImportSites(input[r], d.name, getFileKey(input[a].file)) # {}
    /\ ExportSites(input[r], d.name) # {}
    /\ NamedImportSites(input[c], d.name, getFileKey(input[r].file)) # {}

\* C7: when renamed has returned, along every chain of one re-export hop the
\* re-export of the middle module and the import of the last module both bind the
\* new name of the first module's declaration.
C7_OneHopChainPropagates ==
    Returned =>
        \A a \in 1..Len(input), r \in 1..Len(input), c \in 1..Len(input) :
            \A d \in TopDecls(input[a]) :
                OneHopChain(a, r, c, d) =>
                    /\ \A s \in ExportSites(input[r], d.name) :
                          deps[r].content[s.i].kids[s.j].name = NameAt(deps[a], d)
                    /\ \A s \in NamedImportSites(input[c], d.name, getFileKey(input[r].file)) :
                          deps[c].content[s.i].kids[s.j].name = NameAt(deps[a], d)

\* C8: for every directory and importing module, the specifiers ./dir and
\* ./dir/index resolve to the same module key, which is the key of the file
\* dir/index.<ext>.
C8_IndexSpecifiersShareFileKey ==
    keyIn.set => /\ keyOut.viaDir = keyOut.viaIndex
                 /\ keyOut.viaDir = keyOut.fileKey

\* C9: in every state of a renamed or notRenamed call, and when it has returned,
\* deps and the array being built hold as many modules as the batch passed in, in
\* the same order and each under the file of the input module at its position.
C9_SameModulesSameOrderSamePaths ==
    /\ Len(deps) = Len(input)
    /\ Len(work) = Len(input)
    /\ \A i \in 1..Len(input) : deps[i].file = input[i].file /\ work[i].file = input[i].file
\* renamed has returned a batch whose texts differ from the input's
C9_Witness == Returned /\ deps # input

\* C10: a setPrefix call with a key already stored throws and leaves the stored
\* prefixes and the names arrays of the generators unchanged; with a new key it
\* does not throw, stores the value and starts the generator's names array empty;
\* a getName call on an empty names array returns a name with suffix _1.
C10_SetPrefixStep ==
    /\ (genRet'.call = "setPrefix" /\ genRet'.key \in DOMAIN storedPrefix) =>
          /\ genRet'.threw
          /\ storedPrefix' = storedPrefix
          /\ gens' = gens
    /\ (genRet'.call = "setPrefix" /\ genRet'.key \notin DOMAIN storedPrefix) =>
          /\ ~genRet'.threw
          /\ DOMAIN storedPrefix' = DOMAIN storedPrefix \cup {genRet'.key}
          /\ storedPrefix'[genRet'.key] = genRet'.arg
          /\ \A k \in DOMAIN storedPrefix : storedPrefix'[k] = storedPrefix[k]
          /\ gens'[genRet'.key] = <<>>
          /\ \A k \in DOMAIN gens : gens'[k] = gens[k]
    /\ (genRet'.call = "getName" /\ gens[genRet'.key] = <<>>) =>
          genRet'.name \in {p \o genRet'.arg \o "_1" : p \in PrefixValues \cup {"$nyein"}}
C10_SetPrefixThrowsOrStores == [][C10_SetPrefixStep]_vars
\* a setPrefix call threw on an instance one of whose generators has made a name
C10_Witness ==
    /\ genRet.call = "setPrefix"
    /\ genRet.threw
    /\ \E k \in DOMAIN gens : gens[k] # <<>>

(***************************************************************************)
(* C11 - C18                                                               *)
(***************************************************************************)
\* the stage sequence of the pipeline, each stage named by its handler: Collect,
\* Rename-declarations, Rewrite-references, Rewrite-exports, Rewrite-imports,
\* Rewrite-references, Rewrite-exports
ClaimedStages ==
    <<"collector", "updater", "callExpression", "exportExpression", "importExpression",
      "callExpression", "exportExpression">>
IsPrefix(s, t) == Len(s) <= Len(t) /\ s = SubSeq(t, 1, Len(s))

\* C11: in every state of a renamed call the handlers that have returned for a
\* module are the first stages of the sequence Collect, Rename-declarations,
\* Rewrite-references, Rewrite-exports, Rewrite-imports, Rewrite-references,
\* Rewrite-exports, in that order; a module has finished stage k + 1 only if
\* every module of the batch has finished stage k; and when renamed has returned
\* every module has been through exactly that sequence.
C11_StagesInOrderWithBarrier ==
    (op = "renamed" \/ Returned) =>
        /\ \A i \in 1..Len(deps) : IsPrefix(done[i], ClaimedStages)
        /\ \A i \in 1..Len(deps), j \in 1..Len(deps) : Len(done[i]) <= Len(done[j]) + 1
        /\ Returned => \A i \in 1..Len(deps) : done[i] = ClaimedStages
\* in a batch of three or more modules, some but not all modules have finished the
\* first Rewrite-exports stage
C11_Witness ==
    /\ op = "renamed"
    /\ Len(deps) >= 3
    /\ \E i \in 1..Len(deps), j \in 1..Len(deps) : Len(done[i]) = 4 /\ Len(done[j]) = 3

\* the constructs that open a local scope: a block, a function body (of a
\* declaration, an expression or an arrow), a method body, a class body and the
\* body of a namespace
ScopeOpeners == {"block", "function", "funcexpr", "arrow", "method", "class", "namespace"}
\* the names a node declares itself
OwnNames(node) ==
    IF node.t = "var"
    THEN [i \in 1..Len(SelectSeq(node.kids, LAMBDA d : d.name # "")) |->
             SelectSeq(node.kids, LAMBDA d : d.name # "")[i].name]
    ELSE IF node.t \in DeclKinds /\ node.name # "" THEN <<node.name>>
    ELSE <<>>
RECURSIVE Unscoped(_)
\* the names declared in the subtree of node by declarations that are not a
\* descendant of a construct that opens a local scope
Unscoped(node) ==
    OwnNames(node)
    \o (IF node.t \in ScopeOpeners THEN <<>>
        ELSE Flatten([i \in 1..Len(node.kids) |-> Unscoped(node.kids[i])]))
UnscopedOf(m) == Flatten([i \in 1..Len(m.content) |-> Unscoped(m.content[i])])
Count(seq, x) == Cardinality({p \in 1..Len(seq) : seq[p] = x})

\* C12: in every state, for every name and every module of the batch being
\* collected, the declaration index holds no more entries (name, module) than the
\* module has declarations of the name that are not a descendant of a construct
\* that opens a local scope.
C12_CollectsOnlyOutsideScopes ==
    \A n \in DOMAIN namesMap : \A k \in 1..Len(input) :
        Count(namesMap[n], input[k].file) <= Count(UnscopedOf(input[k]), n)

RECURSIVE AllDeclared(_)
\* the names declared anywhere in the subtree of node, in source order
AllDeclared(node) ==
    OwnNames(node) \o Flatten([i \in 1..Len(node.kids) |-> AllDeclared(node.kids[i])])
\* the names declared in module m below its top-level statements
NestedDeclared(m) ==
    Flatten([i \in 1..Len(m.content) |->
                Flatten([j \in 1..Len(m.content[i].kids) |-> AllDeclared(m.content[i].kids[j])])])
\* the name maps to two or more modules in the declaration index
InTwoModules(n) == n \in DOMAIN namesMap /\ Cardinality(Range(namesMap[n])) >= 2
\* the updater has handled every module of the renamed call
Updated == (op = "renamed" /\ stage >= 3) \/ Returned

\* C13: when the updater has handled every module of a renamed call, a top-level
\* declaration of a module has a new name if and only if its name maps to two or
\* more modules in the declaration index; the declarations nested below the
\* top-level statements have the names they had; and the call-site map holds, for
\* each module, one entry per renamed top-level declaration and no other.
C13_RenamesTopLevelDuplicatesOnly ==
    Updated =>
        \A k \in 1..Len(input) :
            /\ \A d \in TopDecls(input[k]) :
                  NameAt(deps[k], d) # d.name <=> InTwoModules(d.name)
            /\ NestedDeclared(deps[k]) = NestedDeclared(input[k])
            /\ Cardinality({p \in 1..Len(callNameMap) : callNameMap[p].file = input[k].file})
                  = Cardinality({d \in TopDecls(input[k]) : InTwoModules(d.name)})

RECURSIVE ExportBases(_)
\* the names the export sites below node are looked up by, in source order
ExportBases(node) ==
    (IF node.t \in {"espec", "exportAssign"} THEN <<ExportBase(node)>> ELSE <<>>)
    \o Flatten([i \in 1..Len(node.kids) |-> ExportBases(node.kids[i])])
ModExportBases(m) == Flatten([i \in 1..Len(m.content) |-> ExportBases(m.content[i])])
\* the step is handler h returning for module i
Handles(h, i) ==
    /\ op = "renamed"
    /\ stage <= Len(ClaimedStages)
    /\ ClaimedStages[stage] = h
    /\ i \in 1..Len(deps)
    /\ done' = [done EXCEPT ![i] = Append(done[i], h)]
\* both maps hold an entry for (base, module i), with different new names
BothMatch(base, i) ==
    /\ Found(Find(callNameMap, base, deps[i].file))
    /\ Found(Find(importNameMap, base, deps[i].file))
    /\ Find(callNameMap, base, deps[i].file).newName
          # Find(importNameMap, base, deps[i].file).newName
\* what a site looked up by base may read after the rewriter has handled it
Preferred(base, file) ==
    IF Found(Find(callNameMap, base, file)) THEN {base, Find(callNameMap, base, file).newName}
    ELSE IF Found(Find(importNameMap, base, file))
         THEN {base, Find(importNameMap, base, file).newName}
    ELSE {base}

\* C14: in every step of the reference rewriter and of the export rewriter on a
\* module, a site whose base name has a call-site entry for the module reads,
\* after the step, the base name or the call-site entry's new name, also when the
\* import map has an entry for it; it reads the import entry's new name only when
\* no call-site entry matches; and an export site with a call-site entry is
\* rewritten to the call-site entry's new name.
C14_PrefersStep ==
    \A i \in 1..Len(deps) :
        /\ Handles("callExpression", i) =>
              \A p \in 1..Len(ModLeads(deps[i], RefKinds)) :
                  ModLeads(work'[i], RefKinds)[p]
                      \in Preferred(ModLeads(deps[i], RefKinds)[p], deps[i].file)
        /\ Handles("exportExpression", i) =>
              \A p \in 1..Len(ModExportBases(deps[i])) :
                  /\ ModExportBases(work'[i])[p]
                        \in Preferred(ModExportBases(deps[i])[p], deps[i].file)
                  /\ Found(Find(callNameMap, ModExportBases(deps[i])[p], deps[i].file)) =>
                        ModExportBases(work'[i])[p]
                            = Find(callNameMap, ModExportBases(deps[i])[p], deps[i].file).newName
C14_CallSiteMapPreferred == [][C14_PrefersStep]_vars
\* the first Rewrite-exports stage has handled a module in which both maps match
\* foo with different new names: its export site reads the call-site entry's new
\* name, and so does a reference that read foo when renamed was called
C14_Witness ==
    /\ op = "renamed"
    /\ stage = 4
    /\ \E i \in 1..Len(deps) \ todo :
          /\ BothMatch("foo", i)
          /\ \E p \in 1..Len(ModExportBases(deps[i])) :
                /\ ModExportBases(deps[i])[p] = "foo"
                /\ ModExportBases(work[i])[p] = Find(callNameMap, "foo", deps[i].file).newName
          /\ \E p \in 1..Len(ModLeads(input[i], RefKinds)) :
                /\ ModLeads(input[i], RefKinds)[p] = "foo"
                /\ ModLeads(deps[i], RefKinds)[p] = Find(callNameMap, "foo", deps[i].file).newName

\* the export-map entry is backed by a call-site entry of a module with that key
Backed(e) ==
    \E q \in 1..Len(callNameMap) :
        /\ callNameMap[q].base = e.base
        /\ callNameMap[q].newName = e.newName
        /\ getFileKey(callNameMap[q].file) = e.file
RECURSIVE ExportEntries(_, _)
\* the export-map entries of the export sites looked up by bases that have a
\* call-site entry for the module, in source order
ExportEntries(bases, file) ==
    IF bases = <<>> THEN <<>>
    ELSE (IF Found(Find(callNameMap, Head(bases), file))
          THEN <<Entry(Head(bases), getFileKey(file),
                       Find(callNameMap, Head(bases), file).newName)>>
          ELSE <<>>)
         \o ExportEntries(Tail(bases), file)
\* the export site looked up by base matches the import map only
ImportOnly(base, file) ==
    /\ base # ""
    /\ ~Found(Find(callNameMap, base, file))
    /\ Found(Find(importNameMap, base, file))

C15_ExportStep ==
    \A i \in 1..Len(deps) :
        Handles("exportExpression", i) =>
            /\ exportNameMap'
                  = exportNameMap \o ExportEntries(ModExportBases(deps[i]), deps[i].file)
            /\ \A p \in 1..Len(ModExportBases(deps[i])) :
                  ImportOnly(ModExportBases(deps[i])[p], deps[i].file) =>
                      ModExportBases(work'[i])[p]
                          = Find(importNameMap, ModExportBases(deps[i])[p], deps[i].file).newName
\* C15: in every state of a run every export-map entry (base, key, newName) is
\* backed by a call-site entry (base, M, newName) with key the canonical key of M;
\* and every step of the export rewriter on a module appends one export-map entry
\* for each export site whose base name has a call-site entry for the module and
\* nothing else, an export site that matches the import map only being rewritten
\* to the import entry's new name.
C15_ExportEntriesBacked ==
    /\ [](\A p \in 1..Len(exportNameMap) : Backed(exportNameMap[p]))
    /\ [][C15_ExportStep]_vars
\* renamed has returned a module whose export site matched the import map only:
\* the site reads the imported new name and the export map, which holds entries,
\* holds none under the module's key
C15_Witness ==
    /\ Returned
    /\ exportNameMap # <<>>
    /\ \E k \in 1..Len(input) : \E p \in 1..Len(ModExportBases(input[k])) :
          /\ ImportOnly(ModExportBases(input[k])[p], input[k].file)
          /\ ModExportBases(deps[k])[p]
                = Find(importNameMap, ModExportBases(input[k])[p], input[k].file).newName
          /\ \A q \in 1..Len(exportNameMap) : exportNameMap[q].file # getFileKey(input[k].file)

\* the name a named import specifier imports: the one before "as" when aliased
ImportedName(el) == IF el.alias # "" THEN el.alias ELSE el.name
\* the import-map entries the step appends
Appended == SubSeq(importNameMap', Len(importNameMap) + 1, Len(importNameMap'))
\* binding n of an import from key has an export-map entry: after the step on
\* module i the local identifier reads local and the entry is appended
Bound(i, n, key, local) ==
    Found(Find(exportNameMap, n, key)) =>
        /\ local = Find(exportNameMap, n, key).newName
        /\ Entry(n, deps[i].file, Find(exportNameMap, n, key).newName) \in Range(Appended)

\* C16: in every step of the import rewriter on a module, for every import
\* statement of the module, the default binding and each named specifier (also
\* when both occur in the statement, also when the specifier is aliased) whose
\* originally exported name has an export-map entry under the resolved key of the
\* statement's specifier has its local identifier rewritten to the entry's new
\* name, and an import-map entry (exported name, module, new name) is appended.
C16_ImportStep ==
    \A i \in 1..Len(deps) :
        Handles("importExpression", i) =>
            \A s \in {s \in 1..Len(deps[i].content) : deps[i].content[s].t = "import"} :
                LET node == deps[i].content[s]
                    after == work'[i].content[s]
                    key == getModuleKeyFromSpecifier(node.from, deps[i].file)
                IN  /\ node.name # "" => Bound(i, node.name, key, after.name)
                    /\ \A j \in 1..Len(node.kids) :
                          Bound(i, ImportedName(node.kids[j]), key, after.kids[j].name)
C16_EveryBindingRewritten == [][C16_ImportStep]_vars

\* C18: in every state during and after a renamed call started with empty maps,
\* the call-site map holds at most one entry for any (base, module) pair.
C18_OneCallSiteEntryPerName ==
    \A p \in 1..Len(callNameMap), q \in 1..Len(callNameMap) :
        (callNameMap[p].base = callNameMap[q].base /\ callNameMap[p].file = callNameMap[q].file)
            => p = q

\* C17: when renamed has returned after its reference, export and import stages
\* took the modules of the batch in any order, one at a time, the module texts it
\* returns are those it returns when every stage takes the modules in batch order.
C17_AnyOrderSameTexts == Returned => deps = renamed(input, <<>>)

====
